---- MODULE Spec2Model ----
(***************************************************************************)
(* Model of the play-by-play engine of nfl_stats:                          *)
(*   pbp.parse_play_details  (classifier)                                  *)
(*   pbp._clean_features, pbp._loc_to_features  (normalizer)               *)
(*   pbp.expand_details, boxscores.BoxScore.pbp  (sequence assembler)      *)
(*                                                                         *)
(* Python values are tagged records: NaN, None, B(bool), I(int), S(str).   *)
(* A str is a sequence of lexical units: a play description is a sequence  *)
(* of phrases (Tokens below), a clock or a number is a sequence of         *)
(* characters, a location is a sequence of words.                          *)
(* A dict is a function from key names to values.                          *)
(***************************************************************************)
EXTENDS Integers, Sequences, FiniteSets, TLC

VARIABLES
    pc,       \* position in the operation under way
    details,  \* the argument of parse_play_details
    struct,   \* its result; the row handed to _clean_features
    table,    \* the parsed play-by-play table, in source order
    df,       \* the frame being assembled; the value returned
    ctx,      \* the game: line, winner, home
    todo,     \* the indices a loop of BoxScore.pbp has still to visit
    calls,    \* how many times BoxScore.pbp has called initialWinProb
    teamFeats, \* the distToGoal column _add_team_features returned
    THROTTLE_LOCK,     \* utils.THROTTLE_LOCK: its holder, 0 when free
    LAST_REQUEST_TIME, \* utils.LAST_REQUEST_TIME.value
    now,      \* time.time(), in ticks
    callerAt, \* where each caller of get_html is
    wake,     \* when each caller's time.sleep returns
    log,      \* the starts and ends of the HTTP requests, in order
    cache,    \* memoize: the wrapper's cache, key -> object
    heap,     \* the objects: heap[o] is the content of object o
    held,     \* the objects the callers of a memoized function hold
    funLog,   \* for each key, the outcomes of the calls of the wrapped function
    ret       \* what the last call of the wrapper returned

throttleVars == <<THROTTLE_LOCK, LAST_REQUEST_TIME, now, callerAt, wake, log>>
memoVars == <<cache, heap, held, funLog, ret>>
playVars == <<pc, details, struct, table, df, ctx, todo, calls, teamFeats>>
vars == <<pc, details, struct, table, df, ctx, todo, calls, teamFeats,
          THROTTLE_LOCK, LAST_REQUEST_TIME, now, callerAt, wake, log,
          cache, heap, held, funLog, ret>>

(***************************** Python values *******************************)
NaN == [t |-> "nan"]
None == [t |-> "none"]
B(b) == [t |-> "bool", v |-> b]
I(n) == [t |-> "int", v |-> n]
F(n) == [t |-> "float", v |-> n]
S(s) == [t |-> "str", v |-> s]
D(d) == [t |-> "dict", v |-> d]
Tuple(s) == [t |-> "tuple", v |-> s]
Raise(e) == [t |-> "raise", exc |-> e]

True == B(TRUE)
False == B(FALSE)

isinstance_str(x) == x.t = "str"

\* dict.get(k): the value, None when the key is absent
Get(d, k) == IF k \in DOMAIN d THEN d[k] ELSE None

\* dict.update(e): the keys of e override those of d
Update(d, e) == e @@ d

\* pd.notnull / pd.isnull
notnull(x) == x.t \notin {"nan", "none"}
isnull(x) == ~notnull(x)

\* truth value of an object; nan is a non-zero float
Truthy(x) ==
    CASE x.t = "none" -> FALSE
      [] x.t = "nan" -> TRUE
      [] x.t = "bool" -> x.v
      [] x.t \in {"int", "float"} -> x.v # 0
      [] x.t = "str" -> x.v # <<>>
      [] x.t = "dict" -> DOMAIN x.v # {}

(*************************** play descriptions *****************************)
(* Each phrase stands for the text beside it; a description is the phrases *)
(* joined by one space, a challenge sentence being joined to what precedes *)
(* it by ". ".                                                             *)
(*   P      BradTo00                                                       *)
(*   Kick   kicks off 60 yards                                             *)
(*   TO     Timeout #2 by New England Patriots                             *)
(*   FG     37 yard field goal good                                        *)
(*   Punt   punts 45 yards                                                 *)
(*   Kneel  kneels for -1 yards                                            *)
(*   Spike  spiked the ball                                                *)
(*   XP     extra point good                                               *)
(*   TwoPt  Two Point Attempt:                                             *)
(*   ConvS  conversion succeeds                                            *)
(*   ConvF  conversion fails                                               *)
(*   Pass   pass complete                                                  *)
(*   Pen    Penalty on DEN: Offside, 5 yards                               *)
(*   ChalUp Denver challenged the ruling, and the play was upheld.         *)
(*   ChalOv Denver challenged the ruling, and the play was overturned.     *)
(*   Ov     (overturned)                                                   *)
(*   Lat    lateral                                                        *)
(*   Run    left end for 7 yards (tackle by SmitJo01)                      *)
(***************************************************************************)
Tokens ==
    {"P", "Kick", "TO", "FG", "Punt", "Kneel", "Spike", "XP", "TwoPt",
     "ConvS", "ConvF", "Pass", "Pen", "ChalUp", "ChalOv", "Ov", "Lat", "Run"}

MaxLen == 3

RECURSIVE SeqsUpTo(_, _)
SeqsUpTo(A, n) ==
    IF n = 0 THEN {<<>>}
    ELSE LET shorter == SeqsUpTo(A, n - 1)
         IN shorter \cup {Append(s, a) : s \in {q \in shorter : Len(q) = n - 1}, a \in A}

Descs == SeqsUpTo(Tokens, MaxLen)

ChallengeToks == {"ChalUp", "ChalOv"}
ConvToks == {"ConvS", "ConvF"}

Has(d, a) == \E i \in 1..Len(d) : d[i] = a
Adj(d, a, b) == \E i \in 1..(Len(d) - 1) : d[i] = a /\ d[i + 1] = b
Suffix(d, i) == SubSeq(d, i, Len(d))
Min(A) == CHOOSE x \in A : \A y \in A : x <= y
Max(A) == CHOOSE x \in A : \A y \in A : x >= y

\* a regex match: the groupdict, or no match
NoMatch == [m |-> FALSE]
Match(g) == [m |-> TRUE, g |-> g]

\* playerRE = \S{6,8}\d{2}: P has that shape; the tackler inside Run has it
\* too, but with ")" after it, so that no pattern that wants text after the
\* player starts there
playerRE == "P"
player == S(<<"BradTo00">>)
tackler == S(<<"SmitJo01">>)
Digits(s) == S(s)

\* challengeRE: ".+\. <challenger> challenged.*? the play was (upheld|overturned)\."
\* needs text before the sentence break; the greedy prefix picks the last sentence
challengeRE(d) ==
    LET at == {i \in 2..Len(d) : d[i] \in ChallengeToks}
    IN IF at = {} THEN NoMatch
       ELSE Match([challenger |-> S(<<"Denver">>),
                   callUpheld |-> IF d[Max(at)] = "ChalUp" THEN S(<<"upheld">>)
                                  ELSE S(<<"overturned">>)])

\* 'overturned' in details
in_overturned(d) == \E i \in 1..Len(d) : d[i] \in {"ChalOv", "Ov"}
\* details.index('overturned.') + len('overturned.'): 0 stands for ValueError
index_overturned_dot(d) ==
    LET at == {i \in 1..Len(d) : d[i] = "ChalOv"}
    IN IF at = {} THEN 0 ELSE Min(at)

\* shared optional clauses of the play patterns (none of the phrases carries one)
tackleGroups == [tackler1 |-> None, tackler2 |-> None]
fumbleGroups == [fumbler |-> None, fumbForcer |-> None, fumbRecoverer |-> None,
                 fumbRetYds |-> None]
tdSafetyGroups == [isTD |-> None, isSafety |-> None]
penaltyGroups == [penOn |-> None, penalty |-> None, penDeclined |-> None,
                  penYds |-> None]
clauseGroups == tackleGroups @@ fumbleGroups @@ tdSafetyGroups @@ penaltyGroups

kickoffRE(d) ==
    IF Adj(d, playerRE, "Kick")
    THEN Match([koKicker |-> player, isOnside |-> None, koYds |-> Digits(<<"6", "0">>),
                koReturner |-> None, koRetYds |-> None, isMuffedCatch |-> None,
                oob |-> None, isTouchback |-> None] @@ clauseGroups)
    ELSE NoMatch

timeoutRE(d) ==
    IF Has(d, "TO")
    THEN Match([timeoutNum |-> Digits(<<"2">>),
                timeoutTeam |-> S(<<"New England Patriots">>)])
    ELSE NoMatch

fgRE(d) ==
    IF Adj(d, playerRE, "FG")
    THEN Match([fgKicker |-> player, fgDist |-> Digits(<<"3", "7">>),
                fgGood |-> S(<<"good">>), isBlocked |-> None, fgBlocker |-> None]
               @@ tdSafetyGroups @@ penaltyGroups)
    ELSE NoMatch

puntRE(d) ==
    IF Adj(d, playerRE, "Punt")
    THEN Match([punter |-> player, isBlocked |-> None, puntYds |-> Digits(<<"4", "5">>),
                isFairCatch |-> None, oob |-> None, isMuffedCatch |-> None,
                puntReturner |-> None, puntRetYds |-> None, isTouchback |-> None]
               @@ clauseGroups)
    ELSE NoMatch

kneelRE(d) ==
    IF Adj(d, playerRE, "Kneel")
    THEN Match([kneelQB |-> player, kneelYds |-> Digits(<<"-", "1">>)])
    ELSE NoMatch

spikeRE(d) ==
    IF Adj(d, playerRE, "Spike") THEN Match([spikeQB |-> player]) ELSE NoMatch

\* the kicker is optional: "(?:<player> kicks)? ?extra point (good|no good)"
extraPointRE(d) ==
    IF Has(d, "XP") THEN Match([xpKicker |-> None, xpGood |-> S(<<"good">>)])
    ELSE NoMatch

\* "Two Point Attempt: (?P<twoPoint>.*?),?\s+conversion\s+(succeeds|fails)":
\* leftmost start, lazy inner text; the literal ends in a space, which a
\* sentence break after the colon does not supply
twoPointStarts(d) ==
    {i \in 1..Len(d) : /\ d[i] = "TwoPt"
                       /\ ~(i < Len(d) /\ d[i + 1] \in ChallengeToks)
                       /\ \E j \in (i + 2)..Len(d) : d[j] \in ConvToks}
\* a pattern that reports every conversion as a success
twoPointRE_alwaysSucceeds(d) ==
    IF twoPointStarts(d) = {} THEN NoMatch
    ELSE LET i == Min(twoPointStarts(d))
             j == Min({k \in (i + 2)..Len(d) : d[k] \in ConvToks})
         IN Match([twoPoint |-> S(SubSeq(d, i + 1, j - 1)),
                   twoPointSuccess |-> S(<<"succeeds">>)])

twoPointRE(d) ==
    IF twoPointStarts(d) = {} THEN NoMatch
    ELSE LET i == Min(twoPointStarts(d))
             j == Min({k \in (i + 2)..Len(d) : d[k] \in ConvToks})
         IN Match([twoPoint |-> S(SubSeq(d, i + 1, j - 1)),
                   twoPointSuccess |-> IF d[j] = "ConvS" THEN S(<<"succeeds">>)
                                       ELSE S(<<"fails">>)])

passRE(d) ==
    IF Adj(d, playerRE, "Pass")
    THEN Match([passer |-> player, sacker1 |-> None, sacker2 |-> None, sackYds |-> None,
                isComplete |-> S(<<"complete">>), passLoc |-> None, target |-> None,
                passYds |-> None, interceptor |-> None, intRetYds |-> None]
               @@ clauseGroups)
    ELSE NoMatch

\* anchored: "^Penalty on ..."
psPenaltyRE(d) ==
    IF Len(d) >= 1 /\ d[1] = "Pen"
    THEN Match([penOn |-> S(<<"DEN">>), penalty |-> S(<<"Offside">>),
                penDeclined |-> None, penYds |-> Digits(<<"5">>)])
    ELSE NoMatch

\* where the first player of the text stands, the tackler of a Run phrase
\* included; 0 when there is none
firstPlayer(d) ==
    IF \A i \in 1..Len(d) : d[i] \notin {playerRE, "Run"} THEN 0
    ELSE Min({i \in 1..Len(d) : d[i] \in {playerRE, "Run"}})

\* a run pattern that needs the direction and the yards after the rusher
rushRE_needsDirection(d) ==
    IF firstPlayer(d) = 0 THEN NoMatch
    ELSE IF firstPlayer(d) < Len(d) /\ d[firstPlayer(d) + 1] = "Run"
    THEN Match([rusher |-> player, rushDir |-> S(<<"left end">>),
                rushYds |-> Digits(<<"7">>), tackler1 |-> tackler] @@ clauseGroups)
    ELSE NoMatch

\* everything after the rusher is optional, so the match starts at the first
\* player and takes the direction, yards and tackler when they follow it
rushRE(d) ==
    IF firstPlayer(d) = 0 THEN NoMatch
    ELSE IF d[firstPlayer(d)] = "Run"
    THEN Match([rusher |-> tackler, rushDir |-> None, rushYds |-> None] @@ clauseGroups)
    ELSE IF firstPlayer(d) < Len(d) /\ d[firstPlayer(d) + 1] = "Run"
    THEN Match([rusher |-> player, rushDir |-> S(<<"left end">>),
                rushYds |-> Digits(<<"7">>), tackler1 |-> tackler] @@ clauseGroups)
    ELSE Match([rusher |-> player, rushDir |-> None, rushYds |-> None] @@ clauseGroups)

\* the category matchers in the order parse_play_details tries them
ptypeOrder ==
    <<"isKickoff", "isTimeout", "isFieldGoal", "isPunt", "isKneel", "isSpike",
      "isXP", "isTwoPoint", "isPass", "isPresnapPenalty", "isRun">>

categoryRE(k, d) ==
    CASE k = 1 -> kickoffRE(d)
      [] k = 2 -> timeoutRE(d)
      [] k = 3 -> fgRE(d)
      [] k = 4 -> puntRE(d)
      [] k = 5 -> kneelRE(d)
      [] k = 6 -> spikeRE(d)
      [] k = 7 -> extraPointRE(d)
      [] k = 8 -> twoPointRE(d)
      [] k = 9 -> passRE(d)
      [] k = 10 -> psPenaltyRE(d)
      [] k = 11 -> rushRE(d)

\* a classifier that tries the run pattern before the others
firstMatch_runFirst(d) ==
    IF rushRE(d).m THEN 11
    ELSE LET hits == {k \in 1..Len(ptypeOrder) : categoryRE(k, d).m}
         IN IF hits = {} THEN 0 ELSE Min(hits)

\* the sequence of "match = xRE.search(details); if match: ... return struct"
firstMatch(d) ==
    LET hits == {k \in 1..Len(ptypeOrder) : categoryRE(k, d).m}
    IN IF hits = {} THEN 0 ELSE Min(hits)

\* "if 'overturned' in details" under a challenge match: the text that is
\* classified, IndexError standing for the ValueError of str.index
IndexError == <<"ValueError">>
overturned_cut(d0) ==
    IF challengeRE(d0).m /\ in_overturned(d0)
    THEN IF index_overturned_dot(d0) = 0 THEN IndexError
         ELSE Suffix(d0, index_overturned_dot(d0) + 1)
    ELSE d0

\* a classifier whose kickoff branch sets its fields and does not return
try_categories_noReturn(st, d, realPlay) ==
    LET st1 == IF kickoffRE(d).m
               THEN Update(Update(st, [isKickoff |-> True]), kickoffRE(d).g) ELSE st
        later == {k \in 2..Len(ptypeOrder) : categoryRE(k, d).m}
    IN IF later = {} THEN None
       ELSE D(Update(Update(st1, (ptypeOrder[Min(later)] :> True)),
                     categoryRE(Min(later), d).g))

\* lines 261-353: the first matching category fills and returns the struct;
\* realPlay is the classification of the inner play of a two-point attempt
try_categories(st, d, realPlay) ==
    LET k == firstMatch(d)
    IN IF k = 0 THEN None
       ELSE IF ptypeOrder[k] = "isTwoPoint" THEN
           LET struct2 == Update(st, [isTwoPoint |-> True,
                                      twoPointSuccess |-> twoPointRE(d).g.twoPointSuccess])
           IN IF realPlay.t = "raise" THEN realPlay
              ELSE IF Truthy(realPlay) THEN D(Update(struct2, realPlay.v))
              ELSE D(struct2)
       ELSE D(Update(Update(st, (ptypeOrder[k] :> True)), categoryRE(k, d).g))

RECURSIVE parse_play_details(_)
parse_play_details(dtl) ==
    IF ~isinstance_str(dtl) THEN None
    ELSE
    LET ch == challengeRE(dtl.v)
        struct0 == IF ch.m THEN Update([isChallenge |-> True], ch.g)
                   ELSE [isChallenge |-> False]
        d == overturned_cut(dtl.v)
    IN IF d = IndexError THEN Raise("ValueError")
       ELSE try_categories(Update(struct0, [isLateral |-> B(Has(d, "Lat"))]), d,
                           IF twoPointRE(d).m
                           THEN parse_play_details(twoPointRE(d).g.twoPoint)
                           ELSE None)

(**************************** Python built-ins *****************************)
Digit == {"0", "1", "2", "3", "4", "5", "6", "7", "8", "9"}
DigitVal(c) ==
    CASE c = "0" -> 0 [] c = "1" -> 1 [] c = "2" -> 2 [] c = "3" -> 3 [] c = "4" -> 4
      [] c = "5" -> 5 [] c = "6" -> 6 [] c = "7" -> 7 [] c = "8" -> 8 [] c = "9" -> 9

IsDigits(cs) == Len(cs) >= 1 /\ \A i \in 1..Len(cs) : cs[i] \in Digit
IsIntLiteral(cs) ==
    \/ IsDigits(cs)
    \/ Len(cs) >= 2 /\ cs[1] \in {"-", "+"} /\ IsDigits(Tail(cs))

RECURSIVE DigitsVal(_)
DigitsVal(cs) ==
    IF cs = <<>> THEN 0
    ELSE 10 * DigitsVal(SubSeq(cs, 1, Len(cs) - 1)) + DigitVal(cs[Len(cs)])

LiteralVal(cs) ==
    IF cs[1] = "-" THEN 0 - DigitsVal(Tail(cs))
    ELSE IF cs[1] = "+" THEN DigitsVal(Tail(cs))
    ELSE DigitsVal(cs)

\* int(x); floats of the model are whole numbers
py_int(x) ==
    CASE x.t = "int" -> x
      [] x.t = "float" -> I(x.v)
      [] x.t = "bool" -> I(IF x.v THEN 1 ELSE 0)
      [] x.t = "str" -> IF IsIntLiteral(x.v) THEN I(LiteralVal(x.v)) ELSE Raise("ValueError")
      [] x.t = "nan" -> Raise("ValueError")
      [] OTHER -> Raise("TypeError")

\* float(x)
py_float(x) ==
    CASE x.t = "float" -> x
      [] x.t = "nan" -> NaN
      [] x.t = "int" -> F(x.v)
      [] x.t = "bool" -> F(IF x.v THEN 1 ELSE 0)
      [] x.t = "str" -> IF IsIntLiteral(x.v) THEN F(LiteralVal(x.v)) ELSE Raise("ValueError")
      [] OTHER -> Raise("TypeError")

\* "try: f(x) except (ValueError, TypeError): np.nan"
OrNaN(r) == IF r.t = "raise" THEN NaN ELSE r

\* float subtraction; nan propagates
Minus(a, b) == IF a.t = "nan" \/ b.t = "nan" THEN NaN ELSE F(a.v - b.v)

\* str.split(sep) on a sequence of characters
RECURSIVE Split(_, _)
Split(cs, sep) ==
    LET at == {i \in 1..Len(cs) : cs[i] = sep}
    IN IF at = {} THEN <<cs>>
       ELSE <<SubSeq(cs, 1, Min(at) - 1)>> \o Split(Suffix(cs, Min(at) + 1), sep)

LowerChar(c) ==
    CASE c = "D" -> "d" [] c = "E" -> "e" [] c = "N" -> "n" [] c = "Y" -> "y"
      [] c = "G" -> "g" [] OTHER -> c
\* str.lower()
Lower(cs) == [i \in 1..Len(cs) |-> LowerChar(cs[i])]

(******************************* normalizer ********************************)
RUSH_OPTS ==
    [x \in {"left end", "left tackle", "left guard", "up the middle", "middle",
            "right end", "right tackle", "right guard"} |->
        CASE x = "left end" -> "LE" [] x = "left tackle" -> "LT"
          [] x = "left guard" -> "LG" [] x = "up the middle" -> "M"
          [] x = "middle" -> "M" [] x = "right end" -> "RE"
          [] x = "right tackle" -> "RT" [] x = "right guard" -> "RG"]
PASS_OPTS ==
    [x \in {"short left", "short middle", "short right",
            "deep left", "deep middle", "deep right"} |->
        CASE x = "short left" -> "SL" [] x = "short middle" -> "SM"
          [] x = "short right" -> "SR" [] x = "deep left" -> "DL"
          [] x = "deep middle" -> "DM" [] x = "deep right" -> "DR"]

\* a lookup that hands the captured phrase back
OptsGet_keepPhrase(opts, x) == x

\* OPTS.get(x, np.nan) for a captured phrase x
OptsGet(opts, x) ==
    IF x.t = "str" /\ Len(x.v) = 1 /\ x.v[1] \in DOMAIN opts
    THEN S(<<opts[x.v[1]]>>) ELSE NaN

\* phrases that contain " (no play)", "penalty enforced in end zone" and
\* "enforced in end zone, safety": none of the modelled phrases does
NoPlayToks == {}
EndZoneToks == {}
EndZoneSafetyToks == {}
HasAny(d, A) == \E i \in 1..Len(d) : d[i] \in A

\* a location is its words; "' ' in loc" is "more than one word"
_loc_to_features(loc) ==
    IF Truthy(loc)
    THEN IF loc.t = "str"
         THEN IF Len(loc.v) >= 2
              THEN LET n == py_int(S(loc.v[2]))
                   IN IF n.t = "raise" THEN n
                      ELSE Tuple([i \in 1..Len(loc.v) |->
                                     IF i = 1 THEN S(Lower(loc.v[1]))
                                     ELSE IF i = 2 THEN n ELSE S(loc.v[i])])
              ELSE LET n == py_int(S(loc.v[1]))
                   IN IF n.t = "raise" THEN n ELSE Tuple(<<NaN, n>>)
         ELSE IF loc.t \in {"float", "nan"} THEN Tuple(<<NaN, I(50)>>)
         ELSE Raise("UnboundLocalError")
    ELSE Tuple(<<NaN, NaN>>)

IsRaise(r) == r.t = "raise"

ptypes ==
    {"isKickoff", "isTimeout", "isFieldGoal", "isPunt", "isKneel", "isSpike", "isXP",
     "isTwoPoint", "isPresnapPenalty", "isPass", "isRun", "penalty"}
bool_vars ==
    {"fgGood", "isBlocked", "isChallenge", "isComplete", "isFairCatch", "isFieldGoal",
     "isKickoff", "isKneel", "isLateral", "isNoPlay", "isPass", "isPresnapPenalty",
     "isPunt", "isRun", "isSack", "isSafety", "isSpike", "isTD", "isTimeout",
     "isTouchback", "isTwoPoint", "isXP", "isMuffedCatch", "oob", "penDeclined",
     "twoPointSuccess", "xpGood"}
int_vars ==
    {"down", "fgBlockRetYds", "fgDist", "fumbRecYdLine", "fumbRetYds", "intRetYds",
     "intYdLine", "koRetYds", "koYds", "muffRetYds", "pbp_score_aw", "pbp_score_hm",
     "passYds", "penYds", "puntBlockRetYds", "puntRetYds", "puntYds", "quarter",
     "rushYds", "sackYds", "timeoutNum", "ydLine", "yds_to_go"}
float_vars == {"exp_pts_after", "exp_pts_before", "home_wp"}
string_vars ==
    {"challenger", "detail", "fairCatcher", "fgBlockRecoverer", "fgBlocker", "fgKicker",
     "fieldSide", "fumbForcer", "fumbRecFieldSide", "fumbRecoverer", "fumbler",
     "intFieldSide", "interceptor", "kneelQB", "koKicker", "koReturner",
     "muffRecoverer", "muffedBy", "passLoc", "passer", "penOn", "penalty",
     "puntBlockRecoverer", "puntBlocker", "puntReturner", "punter", "qtr_time_remain",
     "rushDir", "rusher", "sacker1", "sacker2", "spikeQB", "tackler1", "tackler2",
     "target", "timeoutTeam", "xpKicker"}

\* "First, clean up play type bools"
clean_ptypes(st) ==
    Update(st, [pt \in ptypes |-> IF notnull(Get(st, pt)) THEN st[pt] ELSE False])

\* "Second, clean up other existing variables on a one-off basis"; the
\* detail is a str here or falsy
clean_oneoffs(st) ==
    LET dt == Get(st, "detail")
        a == Update(st,
              [callUpheld |-> B(Get(st, "callUpheld") = S(<<"upheld">>)),
               fgGood |-> B(Get(st, "fgGood") = S(<<"good">>)),
               isBlocked |-> B(Get(st, "isBlocked") = S(<<"blocked">>)),
               isComplete |-> B(Get(st, "isComplete") = S(<<"complete">>)),
               isFairCatch |-> B(Get(st, "isFairCatch") = S(<<"fair catch">>)),
               isMuffedCatch |-> B(notnull(Get(st, "isMuffedCatch"))),
               isNoPlay |-> IF Truthy(dt)
                            THEN B(HasAny(dt.v, NoPlayToks) /\ ~HasAny(dt.v, EndZoneToks))
                            ELSE False,
               isOnside |-> B(Get(st, "isOnside") = S(<<"onside">>)),
               isSack |-> B(notnull(Get(st, "sackYds"))),
               isSafety |-> IF Get(st, "isSafety") = S(<<", safety">>) THEN True
                            ELSE IF Truthy(dt) THEN B(HasAny(dt.v, EndZoneSafetyToks))
                            ELSE dt,
               isTD |-> B(Get(st, "isTD") = S(<<", touchdown">>)),
               isTouchback |-> B(Get(st, "isTouchback") = S(<<", touchback">>)),
               oob |-> B(notnull(Get(st, "oob"))),
               passLoc |-> OptsGet(PASS_OPTS, Get(st, "passLoc"))])
        b == IF Truthy(a["isPass"])
             THEN Update(a, [passYds |-> IF notnull(a["passYds"]) THEN a["passYds"] ELSE I(0)])
             ELSE a
        c == Update(b, [penalty |-> IF Truthy(Get(b, "penalty")) THEN b["penalty"] ELSE None,
                        penDeclined |-> B(Get(b, "penDeclined") = S(<<"Declined">>))])
        e == IF c["quarter"] = S(<<"O", "T">>) THEN Update(c, [quarter |-> I(5)]) ELSE c
        f == Update(e, [rushDir |-> OptsGet(RUSH_OPTS, Get(e, "rushDir"))])
        g == IF Truthy(f["isRun"])
             THEN Update(f, [rushYds |-> IF notnull(f["rushYds"]) THEN f["rushYds"] ELSE I(0)])
             ELSE f
    IN Update(g, [twoPointSuccess |-> B(Get(g, "twoPointSuccess") = S(<<"succeeds">>)),
                  xpGood |-> B(Get(g, "xpGood") = S(<<"good">>))])

\* "Third, ensure types are correct"
clean_types(st) ==
    LET a == Update(st, [var \in bool_vars |-> B(Get(st, var) = True)])
        b == Update(a, [var \in int_vars |-> OrNaN(py_int(Get(a, var)))])
        c == Update(b, [var \in float_vars |-> OrNaN(py_float(Get(b, var)))])
    IN Update(c, [var \in string_vars |->
                     IF var \notin DOMAIN c \/ isnull(c[var]) THEN NaN ELSE c[var]])

\* elapsed seconds that add the seconds on the clock
secs_elapsed_addSecs(qtr, clock) ==
    IF clock.t # "str" THEN Raise("AttributeError")
    ELSE LET parts == Split(clock.v, ":")
             ints == [i \in 1..Len(parts) |-> py_int(S(parts[i]))]
         IN IF \E i \in 1..Len(parts) : IsRaise(ints[i]) THEN Raise("ValueError")
            ELSE IF Len(parts) # 2 THEN Raise("ValueError")
            ELSE IF qtr.t = "nan" THEN NaN
            ELSE I(qtr.v * 900 - ints[1].v * 60 + ints[2].v)

\* "mins, secs = [int(t) for t in struct['qtr_time_remain'].split(':')]" and
\* "qtr * 900 - mins * 60 - secs"
secs_elapsed(qtr, clock) ==
    IF clock.t # "str" THEN Raise("AttributeError")
    ELSE LET parts == Split(clock.v, ":")
             ints == [i \in 1..Len(parts) |-> py_int(S(parts[i]))]
         IN IF \E i \in 1..Len(parts) : IsRaise(ints[i]) THEN Raise("ValueError")
            ELSE IF Len(parts) # 2 THEN Raise("ValueError")
            ELSE IF qtr.t = "nan" THEN NaN
            ELSE I(qtr.v * 900 - ints[1].v * 60 - ints[2].v)

\* "Fourth, create new helper variables based on parsed variables"
clean_helpers(st) ==
    LET r == IF st["isXP"].v THEN Tuple(<<NaN, NaN>>)
             ELSE _loc_to_features(Get(st, "location"))
    IN IF IsRaise(r) THEN r
       ELSE IF Len(r.v) # 2 THEN Raise("ValueError")
       ELSE
       LET a == Update(st, [fieldSide |-> r.v[1], ydLine |-> r.v[2]])
           se == IF notnull(Get(a, "qtr_time_remain"))
                 THEN secs_elapsed(a["quarter"], a["qtr_time_remain"]) ELSE None
       IN IF IsRaise(se) THEN se
          ELSE
          LET b == IF notnull(Get(a, "qtr_time_remain"))
                   THEN Update(a, [secsElapsed |-> se]) ELSE a
          IN D(Update(b,
                 [isInt |-> B(notnull(Get(b, "interceptor"))),
                  isFumble |-> B(notnull(Get(b, "fumbler"))),
                  isPenalty |-> B(notnull(Get(b, "penalty"))),
                  team_epa |-> Minus(b["exp_pts_after"], b["exp_pts_before"]),
                  opp_epa |-> Minus(b["exp_pts_before"], b["exp_pts_after"])]))

_clean_features(st) ==
    LET dt == Get(st, "detail")
    IN IF Truthy(dt) /\ dt.t # "str" THEN Raise("TypeError")
       ELSE clean_helpers(clean_types(clean_oneoffs(clean_ptypes(st))))

(*************************** sequence assembler ****************************)
\* A DataFrame is the sequence of its rows, row i of the frame (index i - 1)
\* being a dict of its columns.
DF(rows) == [t |-> "df", v |-> rows]

Chars(s) == S(s)
clock_1500 == Chars(<<"1", "5", ":", "0", "0">>)
clock_000 == Chars(<<"0", ":", "0", "0">>)

\* qtr_time_remain.fillna(method='bfill'): the next non-null value below
bfill(col) ==
    [i \in 1..Len(col) |->
        LET below == {j \in i..Len(col) : notnull(col[j])}
        IN IF below = {} THEN col[i] ELSE col[Min(below)]]

\* fillna(method='ffill'): the last non-null value above
ffill(col) ==
    [i \in 1..Len(col) |->
        LET above == {j \in 1..i : notnull(col[j])}
        IN IF above = {} THEN col[i] ELSE col[Max(above)]]

\* "df.quarter == 4": a number equals 4, a str does not
eq_4(q) == q.t \in {"int", "float"} /\ q.v = 4

\* the columns of the play-by-play table that the assembler reads
RawCols ==
    {"detail", "quarter", "qtr_time_remain", "location", "home_wp", "pbp_score_hm",
     "pbp_score_aw", "exp_pts_before", "exp_pts_after"}

\* "df.loc[0, col] = value": sets the cell, and makes the row when the frame
\* has none
set_first(frame, cols, col, value) ==
    IF frame = <<>> THEN <<Update([c \in cols |-> NaN], (col :> value))>>
    ELSE [i \in 1..Len(frame) |->
             IF i = 1 THEN Update(frame[i], (col :> value)) ELSE frame[i]]

Column(frame, col) == [i \in 1..Len(frame) |-> frame[i][col]]

fill_by_quarter_always1500(seeded, filled) ==
    [i \in 1..Len(seeded) |->
        Update(seeded[i],
               [qtr_time_remain |->
                   IF notnull(filled[i]) THEN filled[i] ELSE clock_1500])]

\* lines 43-45: what the back-fill left empty is filled by quarter
fill_by_quarter(seeded, filled) ==
    [i \in 1..Len(seeded) |->
        Update(seeded[i],
               [qtr_time_remain |->
                   IF notnull(filled[i]) THEN filled[i]
                   ELSE IF eq_4(seeded[i]["quarter"]) THEN clock_000 ELSE clock_1500])]

\* line 42
bfill_clock(seeded) == fill_by_quarter(seeded, bfill(Column(seeded, "qtr_time_remain")))

\* lines 40-45: seed the first clock, back-fill, then fill what is left by quarter
fill_clock(frame) ==
    bfill_clock(set_first(frame, RawCols \cup {"is_error"}, "qtr_time_remain", clock_1500))

\* lines 33-39: the details frame, with a blank entry for every play without
\* a record, merged with the table on the index, and the error marks
merge_on_index(frame, dicts, cols) ==
    [i \in 1..Min({Len(frame), Len(dicts)}) |->
        Update(Update(frame[i],
                      [c \in cols |-> IF Truthy(dicts[i]) /\ c \in DOMAIN dicts[i].v
                                      THEN dicts[i].v[c] ELSE NaN]),
               [is_error |-> B(dicts[i].t = "none")])]

\* a merge whose details frame holds the matched plays only
merge_details_dropUnmatched(frame, dicts) ==
    LET matched == {j \in 1..Len(dicts) : dicts[j].t = "dict"}
        cols == UNION {DOMAIN dicts[i].v : i \in matched}
        nth(n) == CHOOSE j \in matched : Cardinality({x \in matched : x <= j}) = n
    IN [i \in 1..Min({Len(frame), Cardinality(matched)}) |->
           Update(Update(frame[i],
                         [c \in cols |-> IF c \in DOMAIN dicts[nth(i)].v
                                         THEN dicts[nth(i)].v[c] ELSE NaN]),
                  [is_error |-> False])]

\* lines 28-39: the columns are those of the records found (lines 30-31)
merge_details(frame, dicts) ==
    merge_on_index(frame, dicts,
        UNION {DOMAIN dicts[i].v : i \in {j \in 1..Len(dicts) : dicts[j].t = "dict"}})

\* the frame of the rows df.apply collected, or the first exception raised
apply_result(new_df) ==
    IF \E i \in 1..Len(new_df) : IsRaise(new_df[i])
    THEN new_df[Min({i \in 1..Len(new_df) : IsRaise(new_df[i])})]
    ELSE DF([i \in 1..Len(new_df) |-> new_df[i].v])

\* line 47: "df.apply(_clean_features, axis=1)"
apply_clean_features(filled) ==
    apply_result([i \in 1..Len(filled) |-> _clean_features(filled[i])])

\* lines 28-47 once the details are parsed; an exception of
\* parse_play_details leaves the list comprehension of line 28
expand_parsed(frame, dicts) ==
    IF \E i \in 1..Len(dicts) : IsRaise(dicts[i]) THEN Raise("ValueError")
    ELSE apply_clean_features(fill_clock(merge_details(frame, dicts)))

expand_details(frame) ==
    expand_parsed(frame, [i \in 1..Len(frame) |-> parse_play_details(frame[i]["detail"])])

(************************** module-level state *****************************)
THROTTLE_DELAY == 2
NCallers == 2
Callers == 1..NCallers
MaxTime == 6

\* utils.py lines 14-20: the lock is free and LAST_REQUEST_TIME is
\* "time.time() - 2 * THROTTLE_DELAY"; no caller has entered get_html
ImportUtils ==
    /\ THROTTLE_LOCK = 0
    /\ now = 0
    /\ LAST_REQUEST_TIME = 0 - 2 * THROTTLE_DELAY
    /\ callerAt = [p \in Callers |-> "call"]
    /\ wake = [p \in Callers |-> 0]
    /\ log = <<>>

Keys == {"k1", "k2"}

\* decorators.py line 135: "cache = {}"; no object exists yet
ImportDecorators ==
    /\ cache = <<>>
    /\ heap = <<>>
    /\ held = {}
    /\ funLog = [k \in Keys |-> <<>>]
    /\ ret = None

\* no play-by-play work is under way
NoPlays ==
    /\ pc = "idle"
    /\ details = None
    /\ struct = None
    /\ table = <<>>
    /\ df = None
    /\ ctx = None
    /\ todo = <<>>
    /\ calls = 0
    /\ teamFeats = <<>>

(************************ classifier on its own ***************************)
InitParse ==
    /\ pc = "start"
    /\ details \in {S(d) : d \in Descs} \cup {None, NaN}
    /\ struct = None
    /\ table = <<>>
    /\ df = None
    /\ ctx = None
    /\ todo = <<>>
    /\ calls = 0
    /\ teamFeats = <<>>
    /\ ImportUtils
    /\ ImportDecorators

Parse ==
    /\ pc = "start"
    /\ struct' = parse_play_details(details)
    /\ pc' = IF struct'.t = "raise" THEN "raised" ELSE "done"
    /\ UNCHANGED <<details, table, df, ctx, todo, calls, teamFeats, throttleVars, memoVars>>

NextParse == Parse

SpecParse == InitParse /\ [][NextParse]_vars

(************************* inputs of the assembler *************************)
Word(cs) == cs
DEN == Word(<<"D", "E", "N">>)

RawRow(d, q, c, l, w) ==
    [detail |-> d, quarter |-> q, qtr_time_remain |-> c, location |-> l, home_wp |-> w,
     pbp_score_hm |-> F(0), pbp_score_aw |-> F(0),
     exp_pts_before |-> F(1), exp_pts_after |-> F(2)]

\* clock texts with the minutes and seconds they spell
ClockTable ==
    {[txt |-> <<"1", "5", ":", "0", "0">>, mins |-> 15, secs |-> 0],
     [txt |-> <<"1", "0", ":", "3", "0">>, mins |-> 10, secs |-> 30],
     [txt |-> <<"0", ":", "0", "0">>, mins |-> 0, secs |-> 0]}
Clocks == {Chars(c.txt) : c \in ClockTable} \cup {NaN, Chars(<<"1", "0", "3", "0">>)}

Quarters == {F(1), F(2), F(4), Chars(<<"2">>), Chars(<<"O", "T">>), NaN}

Locations ==
    {S(<<DEN, Word(<<"3", "5">>)>>), S(<<Word(<<"5", "0">>)>>), NaN, None, S(<<>>),
     F(35), I(35), S(<<DEN>>), S(<<DEN, Word(<<"3", "Y">>)>>),
     S(<<DEN, Word(<<"3", "5">>), Word(<<"x">>)>>)}

run_detail == S(<<"P">>)
timeout_detail == S(<<"TO">>)
kickoff_detail == S(<<"P", "Kick">>)
unmatched_detail == S(<<"Lat">>)
good_location == S(<<DEN, Word(<<"3", "5">>)>>)

(************************ normalizer on its own ***************************)
\* what _clean_features is applied to: the second play of a two-play table,
\* as lines 28-39 of expand_details merge it, with any clock
kickoff_row == RawRow(S(<<"P", "Kick">>), F(1), clock_1500, good_location, F(50))

CleanInputs ==
    {RawRow(d, F(2), Chars(<<"1", "0", ":", "3", "0">>), good_location, F(50)) :
        d \in {S(x) : x \in Descs} \cup {NaN, None}}
    \cup {RawRow(d, q, c, l, F(50)) :
            d \in {run_detail, NaN}, q \in Quarters, c \in Clocks, l \in Locations}

InitClean ==
    /\ pc = "start"
    /\ table \in {<<kickoff_row, r>> :
                    r \in {x \in CleanInputs : ~IsRaise(parse_play_details(x.detail))}}
    /\ details = table[2]["detail"]
    /\ struct = D(merge_details(table, [i \in 1..2 |->
                                          parse_play_details(table[i]["detail"])])[2])
    /\ df = None
    /\ ctx = None
    /\ todo = <<>>
    /\ calls = 0
    /\ teamFeats = <<>>
    /\ ImportUtils
    /\ ImportDecorators

CleanFeatures ==
    /\ pc = "start"
    /\ df' = _clean_features(struct.v)
    /\ pc' = IF IsRaise(df') THEN "raised" ELSE "done"
    /\ UNCHANGED <<details, struct, table, ctx, todo, calls, teamFeats, throttleVars, memoVars>>

NextClean == CleanFeatures

SpecClean == InitClean /\ [][NextClean]_vars

(*********************** expand_details on its own ************************)
MaxPlays == 3

raising_detail == S(<<"Lat", "Ov", "ChalUp">>)

ExpandRows ==
    {RawRow(run_detail, q, c, good_location, F(50)) :
        q \in {F(1), F(2), F(4), Chars(<<"O", "T">>)},
        c \in {NaN, clock_1500, Chars(<<"1", "0", ":", "3", "0">>)}}
    \cup {RawRow(unmatched_detail, F(1), NaN, good_location, F(50)),
          RawRow(unmatched_detail, F(2), Chars(<<"1", "0", ":", "3", "0">>),
                 good_location, F(50)),
          RawRow(raising_detail, F(2), NaN, good_location, F(50)),
          RawRow(NaN, F(2), NaN, good_location, F(50))}

InitExpand ==
    /\ pc = "start"
    /\ table \in SeqsUpTo(ExpandRows, MaxPlays)
    /\ details = None
    /\ struct = None
    /\ df = None
    /\ ctx = None
    /\ todo = <<>>
    /\ calls = 0
    /\ teamFeats = <<>>
    /\ ImportUtils
    /\ ImportDecorators

ExpandDetails ==
    /\ pc = "start"
    /\ df' = expand_details(table)
    /\ pc' = IF IsRaise(df') THEN "raised" ELSE "done"
    /\ UNCHANGED <<details, struct, table, ctx, todo, calls, teamFeats, throttleVars, memoVars>>

NextExpand == ExpandDetails

SpecExpand == InitExpand /\ [][NextExpand]_vars

(***************************** BoxScore.pbp *******************************)
home_team == S(<<"nwe">>)
away_team == S(<<"den">>)

\* winProb.initialWinProb: the home team's win probability before the first
\* play, from the point spread (not part of this repository's sources)
\* a numeric model has no value for a spread that is not a number
initialWinProb(line) ==
    IF ~(line.t \in {"int", "float"}) THEN Raise("TypeError")
    ELSE IF line = F(0) THEN F(50) ELSE F(59)

\* _add_team_columns: adds columns, keeps the rows (not part of the sources)
_add_team_columns(feats) == feats

Games ==
    {[line |-> F(0), winner |-> home_team, home |-> home_team],
     [line |-> F(0), winner |-> away_team, home |-> home_team],
     [line |-> F(0), winner |-> None, home |-> home_team],
     [line |-> F(0 - 3), winner |-> home_team, home |-> home_team],
     [line |-> None, winner |-> home_team, home |-> home_team]}

clock_1030 == Chars(<<"1", "0", ":", "3", "0">>)

\* a row of the table with the score after the play
Scored(row, hm, aw) == [row EXCEPT !["pbp_score_hm"] = hm, !["pbp_score_aw"] = aw]

PbpRows ==
    {RawRow(run_detail, F(1), clock_1500, good_location, F(40)),
     Scored(RawRow(run_detail, F(1), clock_1030, good_location, F(70)), F(7), F(0)),
     RawRow(run_detail, F(1), NaN, good_location, NaN),
     RawRow(kickoff_detail, F(1), clock_1500, good_location, F(40)),
     RawRow(timeout_detail, F(1), clock_1030, good_location, F(40)),
     Scored(RawRow(timeout_detail, F(1), NaN, good_location, F(70)), F(7), F(0)),
     Scored(RawRow(unmatched_detail, F(1), clock_1030, good_location, F(70)), F(7), F(0)),
     Scored(RawRow(run_detail, F(4), clock_1030, good_location, F(40)), F(7), F(3)),
     Scored(RawRow(run_detail, F(4), NaN, good_location, F(70)), F(14), F(3))}

\* a game starts in the first quarter and the quarters never go back
quarters_in_order(frame) ==
    /\ frame # <<>> => frame[1]["quarter"] = F(1)
    /\ \A i \in 1..Len(frame) : \A j \in i..Len(frame) :
           frame[i]["quarter"].v <= frame[j]["quarter"].v

\* the table records the score after each play: it never goes down
scores_in_order(frame) ==
    \A i \in 1..Len(frame) : \A j \in i..Len(frame) :
        /\ frame[i]["pbp_score_hm"].v <= frame[j]["pbp_score_hm"].v
        /\ frame[i]["pbp_score_aw"].v <= frame[j]["pbp_score_aw"].v

InitPbp ==
    /\ pc = "start"
    /\ table \in {g \in SeqsUpTo(PbpRows, MaxPlays) :
                     quarters_in_order(g) /\ scores_in_order(g)}
    /\ ctx \in Games
    /\ details = None
    /\ struct = None
    /\ df = None
    /\ todo = <<>>
    /\ calls = 0
    /\ teamFeats = <<>>
    /\ ImportUtils
    /\ ImportDecorators

\* Series.diff() and Series.shift(1)
diff(col) == [i \in 1..Len(col) |-> IF i = 1 THEN NaN ELSE Minus(col[i], col[i - 1])]
shift(col) == [i \in 1..Len(col) |-> IF i = 1 THEN NaN ELSE col[i - 1]]

SetCol(frame, col, vals) == [i \in 1..Len(frame) |-> Update(frame[i], (col :> vals[i]))]
SetCell(frame, i, col, val) ==
    [j \in 1..Len(frame) |-> IF j = i THEN Update(frame[j], (col :> val)) ELSE frame[j]]

\* df[mask].index: the positions, in index order, where the mask is true
RECURSIVE Where(_, _)
Where(mask, from) ==
    IF from > Len(mask) THEN <<>>
    ELSE (IF mask[from] THEN <<from>> ELSE <<>>) \o Where(mask, from + 1)

\* "df[df.secsElapsed == 0].index" and "df[df.isTimeout].index"
firstPlaysOfGame(frame) ==
    Where([i \in 1..Len(frame) |-> Get(frame[i], "secsElapsed") = I(0)], 1)
timeouts(frame) ==
    Where([i \in 1..Len(frame) |-> frame[i]["isTimeout"] = True], 1)

finalWP_tieAsLoss(g) == IF g.winner = g.home THEN F(100) ELSE F(0)

\* "50. if pd.isnull(winner) else (winner == self.home()) * 100."
finalWP(g) == IF isnull(g.winner) THEN F(50)
              ELSE IF g.winner = g.home THEN F(100) ELSE F(0)

\* lines 365-377; an exception of expand_details leaves pbp
PbpExpand ==
    /\ pc = "start"
    /\ df' = _add_team_columns(expand_details(table))
    /\ pc' = IF IsRaise(df') THEN "raised" ELSE "lag"
    /\ UNCHANGED <<details, struct, table, ctx, todo, calls, teamFeats, throttleVars, memoVars>>

\* line 379: "df['home_wpa'] = df.home_wp.diff()"
diff_home_wp(frame) == SetCol(frame, "home_wpa", diff(Column(frame, "home_wp")))
\* lines 381-383: "df[col] = df[col].shift(1)"
shift_col(frame, col) == SetCol(frame, col, shift(Column(frame, col)))
\* line 384: "df.loc[0, ['pbp_score_hm', 'pbp_score_aw']] = 0"
zero_scores(frame) ==
    set_first(set_first(frame, DOMAIN frame[1], "pbp_score_hm", I(0)),
              DOMAIN frame[1], "pbp_score_aw", I(0))
\* line 386: "df.home_wp.fillna(method='ffill', inplace=True)"
ffill_home_wp(frame) == SetCol(frame, "home_wp", ffill(Column(frame, "home_wp")))

\* lines 378-388: diff the win probability, lag it and the scores, start the
\* score at 0-0, forward-fill the win probability, find the plays at second 0
PbpLag ==
    /\ pc = "lag"
    /\ df' = DF(ffill_home_wp(zero_scores(
                 shift_col(shift_col(shift_col(diff_home_wp(df.v), "home_wp"),
                                     "pbp_score_hm"), "pbp_score_aw"))))
    /\ todo' = firstPlaysOfGame(df'.v)
    /\ pc' = "first"
    /\ UNCHANGED <<details, struct, table, ctx, calls, teamFeats, throttleVars, memoVars>>

\* the two assignments of lines 392-393; df.loc[i + 1, ...] is a KeyError past
\* the last row
first_play(frame, i, initwp) ==
    IF i + 1 > Len(frame) THEN Raise("KeyError")
    ELSE DF(SetCell(SetCell(frame, i, "home_wp", initwp), i, "home_wpa",
                    Minus(frame[i + 1]["home_wp"], initwp)))

\* lines 390-393, one turn of the loop; an exception of initialWinProb leaves
\* pbp
PbpFirstPlay ==
    /\ pc = "first"
    /\ todo # <<>>
    /\ calls' = calls + 1
    /\ df' = IF IsRaise(initialWinProb(ctx.line)) THEN initialWinProb(ctx.line)
             ELSE first_play(df.v, Head(todo), initialWinProb(ctx.line))
    /\ pc' = IF IsRaise(df') THEN "raised" ELSE "first"
    /\ todo' = IF IsRaise(df') THEN <<>> ELSE Tail(todo)
    /\ UNCHANGED <<details, struct, table, ctx, teamFeats, throttleVars, memoVars>>

\* lines 394-402: the last play moves to the final win probability; find the
\* timeouts
PbpLastPlay ==
    /\ pc = "first"
    /\ todo = <<>>
    /\ LET lastPlayIdx == Len(df.v)
           lastPlayWP == df.v[lastPlayIdx]["home_wp"]
       IN df' = DF(SetCell(df.v, lastPlayIdx, "home_wpa", Minus(finalWP(ctx), lastPlayWP)))
    /\ todo' = timeouts(df'.v)
    /\ pc' = "timeouts"
    /\ UNCHANGED <<details, struct, table, ctx, calls, teamFeats, throttleVars, memoVars>>

\* lines 403-409, one turn of the loop
PbpTimeout ==
    /\ pc = "timeouts"
    /\ todo # <<>>
    /\ LET to == Head(todo)
           zeroed == SetCell(df.v, to, "home_wpa", F(0))
       IN IF to + 1 > Len(df.v)
          THEN /\ df' = Raise("KeyError")
               /\ pc' = "raised"
               /\ todo' = <<>>
          ELSE LET wpa == IF to + 2 <= Len(df.v)
                          THEN Minus(zeroed[to + 2]["home_wp"], zeroed[to + 1]["home_wp"])
                          ELSE Minus(finalWP(ctx), zeroed[to + 1]["home_wp"])
               IN /\ df' = DF(SetCell(zeroed, to + 1, "home_wpa", wpa))
                  /\ pc' = "timeouts"
                  /\ todo' = Tail(todo)
    /\ UNCHANGED <<details, struct, table, ctx, calls, teamFeats, throttleVars, memoVars>>

\* _add_team_features: the frame with the team-related columns, distToGoal
\* among them, present or missing on each play (not part of the sources)
_add_team_features(frame, dist) == SetCol(frame, "distToGoal", dist)

Distances == {NaN, F(35), F(20)}

\* line 413: "np.where(df.isKickoff, 65, df.distToGoal)"
seed_kickoffs(frame) ==
    SetCol(frame, "distToGoal",
           [i \in 1..Len(frame) |-> IF frame[i]["isKickoff"] = True THEN F(65)
                                     ELSE frame[i]["distToGoal"]])
fill_distToGoal_ffillFirst(frame) ==
    SetCol(frame, "distToGoal", bfill(ffill(Column(frame, "distToGoal"))))

\* lines 414-415: back-fill, then forward-fill
fill_distToGoal(frame) ==
    SetCol(frame, "distToGoal", ffill(bfill(Column(frame, "distToGoal"))))

\* lines 410-411; teamFeats keeps the distToGoal column _add_team_features
\* returned
PbpTeamFeatures ==
    /\ pc = "timeouts"
    /\ todo = <<>>
    /\ teamFeats' \in [1..Len(df.v) -> Distances]
    /\ df' = DF(_add_team_features(df.v, teamFeats'))
    /\ pc' = "distToGoal"
    /\ UNCHANGED <<details, struct, table, ctx, todo, calls, throttleVars, memoVars>>

\* lines 412-417
PbpReturn ==
    /\ pc = "distToGoal"
    /\ df' = DF(fill_distToGoal(seed_kickoffs(df.v)))
    /\ pc' = "done"
    /\ UNCHANGED <<details, struct, table, ctx, todo, calls, teamFeats, throttleVars, memoVars>>

NextPbp ==
    \/ PbpExpand \/ PbpLag \/ PbpFirstPlay \/ PbpLastPlay \/ PbpTimeout
    \/ PbpTeamFeatures \/ PbpReturn

SpecPbp == InitPbp /\ [][NextPbp]_vars

(******************************** get_html *********************************)
InitThrottle == NoPlays /\ ImportUtils /\ ImportDecorators

\* line 27: "with THROTTLE_LOCK:" blocks until the lock is free
Acquire(p) ==
    /\ callerAt[p] = "call"
    /\ THROTTLE_LOCK = 0
    /\ THROTTLE_LOCK' = p
    /\ callerAt' = [callerAt EXCEPT ![p] = "locked"]
    /\ UNCHANGED <<LAST_REQUEST_TIME, now, wake, log, playVars, memoVars>>

\* line 29
wait_left(t) == THROTTLE_DELAY - (t - LAST_REQUEST_TIME)

\* lines 29-31: time.sleep(wait_left) returns no sooner than asked
Sleep(p) ==
    /\ callerAt[p] = "locked"
    /\ wake' = [wake EXCEPT ![p] = IF wait_left(now) > 0 THEN now + wait_left(now) ELSE now]
    /\ callerAt' = [callerAt EXCEPT ![p] = "sleep"]
    /\ UNCHANGED <<THROTTLE_LOCK, LAST_REQUEST_TIME, now, log, playVars, memoVars>>

\* line 34: requests.get sends the request
Request(p) ==
    /\ callerAt[p] = "sleep"
    /\ now >= wake[p]
    /\ callerAt' = [callerAt EXCEPT ![p] = "request"]
    /\ log' = Append(log, [e |-> "start", t |-> now])
    /\ UNCHANGED <<THROTTLE_LOCK, LAST_REQUEST_TIME, now, wake, playVars, memoVars>>

\* line 34: requests.get returns a response
Response(p) ==
    /\ callerAt[p] = "request"
    /\ callerAt' = [callerAt EXCEPT ![p] = "stamp"]
    /\ log' = Append(log, [e |-> "end", t |-> now])
    /\ UNCHANGED <<THROTTLE_LOCK, LAST_REQUEST_TIME, now, wake, playVars, memoVars>>

\* line 34: requests.get raises (no connection, time-out); the exception
\* leaves the with-block, which releases the lock
RequestRaises(p) ==
    /\ callerAt[p] = "request"
    /\ callerAt' = [callerAt EXCEPT ![p] = "raised"]
    /\ THROTTLE_LOCK' = 0
    /\ log' = Append(log, [e |-> "end", t |-> now])
    /\ UNCHANGED <<LAST_REQUEST_TIME, now, wake, playVars, memoVars>>

\* line 37: "LAST_REQUEST_TIME.value = time.time()"
Stamp(p) ==
    /\ callerAt[p] = "stamp"
    /\ LAST_REQUEST_TIME' = now
    /\ callerAt' = [callerAt EXCEPT ![p] = "unlock"]
    /\ UNCHANGED <<THROTTLE_LOCK, now, wake, log, playVars, memoVars>>

\* the end of the with-block; lines 39-52 work on the response
Release(p) ==
    /\ callerAt[p] = "unlock"
    /\ THROTTLE_LOCK' = 0
    /\ callerAt' = [callerAt EXCEPT ![p] = "returned"]
    /\ UNCHANGED <<LAST_REQUEST_TIME, now, wake, log, playVars, memoVars>>

\* time passes
Tick ==
    /\ now < MaxTime
    /\ now' = now + 1
    /\ UNCHANGED <<THROTTLE_LOCK, LAST_REQUEST_TIME, callerAt, wake, log, playVars, memoVars>>

NextThrottle ==
    \/ \E p \in Callers : Acquire(p)
    \/ \E p \in Callers : Sleep(p)
    \/ \E p \in Callers : Request(p)
    \/ \E p \in Callers : Response(p)
    \/ \E p \in Callers : RequestRaises(p)
    \/ \E p \in Callers : Stamp(p)
    \/ \E p \in Callers : Release(p)
    \/ Tick

SpecThrottle == InitThrottle /\ [][NextThrottle]_vars

(********************************* memoize *********************************)
\* what the wrapped function can return, and the contents a caller can give
\* an object it holds
Results == {1, 2}
Contents == {0} \cup Results
MaxObjs == 5
MaxFunCalls == 2

InitMemo == NoPlays /\ ImportUtils /\ ImportDecorators

\* an object that shares the cached one
_copy_sameObject(h, o) == o

\* lines 117-121, "_copy(v)": copy.deepcopy(v) or v.clone(), a new object of
\* the heap h
_copy(h, o) == Len(h) + 1

\* the heap once object o has been copied into object c
copied(h, o, c) == IF c > Len(h) THEN Append(h, h[o]) ELSE h

\* what the wrapper hands to its caller
Returned(k, o, h) == [t |-> "ret", key |-> k, obj |-> o, value |-> h[o], before |-> heap]

\* lines 123-125: the key is in the cache, a copy of the cached object is
\* returned
WrapperHit(k) ==
    /\ k \in DOMAIN cache
    /\ Len(heap) < MaxObjs
    /\ heap' = copied(heap, cache[k], _copy(heap, cache[k]))
    /\ held' = held \cup {_copy(heap, cache[k])}
    /\ ret' = Returned(k, _copy(heap, cache[k]), heap')
    /\ UNCHANGED <<cache, funLog, playVars, throttleVars>>

\* the heap once the wrapped function has returned a new object of content v
fun_returns(v) == Append(heap, v)

\* lines 126-129: KeyError, the function is called and returns a new object
\* with content v, which is cached; a copy of it is returned
WrapperMiss(k, v) ==
    /\ k \notin DOMAIN cache
    /\ Len(heap) + 1 < MaxObjs
    /\ Len(funLog[k]) < MaxFunCalls
    /\ cache' = (k :> Len(fun_returns(v))) @@ cache
    /\ funLog' = [funLog EXCEPT ![k] = Append(@, v)]
    /\ heap' = copied(fun_returns(v), cache'[k], _copy(fun_returns(v), cache'[k]))
    /\ held' = held \cup {_copy(fun_returns(v), cache'[k])}
    /\ ret' = Returned(k, _copy(fun_returns(v), cache'[k]), heap')
    /\ UNCHANGED <<playVars, throttleVars>>

\* line 127: the function raises (logged as 0), nothing is cached
WrapperMissRaises(k) ==
    /\ k \notin DOMAIN cache
    /\ Len(funLog[k]) < MaxFunCalls
    /\ funLog' = [funLog EXCEPT ![k] = Append(@, 0)]
    /\ ret' = Raise("Exception")
    /\ UNCHANGED <<cache, heap, held, playVars, throttleVars>>

\* lines 130-133: an argument that cannot be hashed, TypeError
WrapperUnhashable ==
    /\ ret # Raise("TypeError")
    /\ ret' = Raise("TypeError")
    /\ UNCHANGED <<cache, heap, held, funLog, playVars, throttleVars>>

\* a caller changes an object it was handed
Mutate(o, v) ==
    /\ o \in held
    /\ heap[o] # v
    /\ heap' = [heap EXCEPT ![o] = v]
    /\ UNCHANGED <<cache, held, funLog, ret, playVars, throttleVars>>

NextMemo ==
    \/ \E k \in Keys : WrapperHit(k)
    \/ \E k \in Keys : \E v \in Results : WrapperMiss(k, v)
    \/ \E k \in Keys : WrapperMissRaises(k)
    \/ WrapperUnhashable
    \/ \E o \in held : \E v \in Contents : Mutate(o, v)

SpecMemo == InitMemo /\ [][NextMemo]_vars

(*************************** classifier claims *****************************)
Categories == 1..Len(ptypeOrder)
\* the categories whose pattern matches a text
Matching(d) == {k \in Categories : categoryRE(k, d).m}
\* the category flags a returned record carries, and the first of them
FlagsOf(st) == {k \in Categories : Get(st, ptypeOrder[k]) = True}
CategoryOf(st) == Min(FlagsOf(st))

\* C1: parse_play_details never raises: for every input it returns a field
\* mapping or None, and None exactly when the input is not a string or none
\* of the 11 category patterns matches the text that is classified.
C1_NeverRaises ==
    pc # "start" =>
        /\ pc # "raised"
        /\ struct.t \in {"dict", "none"}
        /\ (struct.t = "none") <=>
               (~isinstance_str(details) \/ Matching(overturned_cut(details.v)) = {})

\* C2 as stated: the category returned is the first category, in the fixed
\* order, whose pattern matches the description.
C2_FirstMatchOfDescription ==
    (pc = "done" /\ struct.t = "dict") =>
        /\ CategoryOf(struct.v) \in Matching(details.v)
        /\ \A j \in 1..(CategoryOf(struct.v) - 1) : j \notin Matching(details.v)

\* C2 amended: the category returned is the first category, in the fixed
\* order, whose pattern matches the text that is classified: the description,
\* or what follows the first "overturned." when a challenge sentence matched
\* and the description contains "overturned".
C2_FirstMatchOfPlayText ==
    (pc = "done" /\ struct.t = "dict") =>
        /\ CategoryOf(struct.v) \in Matching(overturned_cut(details.v))
        /\ \A j \in 1..(CategoryOf(struct.v) - 1) :
               j \notin Matching(overturned_cut(details.v))

\* an overturned challenge, classified by its remaining text into another
\* category than the first one matching the whole description
C2_Witness ==
    /\ pc = "done"
    /\ struct.t = "dict"
    /\ overturned_cut(details.v) # details.v
    /\ Matching(details.v) # {}
    /\ CategoryOf(struct.v) # Min(Matching(details.v))

(*************************** normalizer claims *****************************)
\* the category flags that are true in a normalized row
TrueFlags(r) == {k \in Categories : r[ptypeOrder[k]] = True}
\* the classification of the row's description, and of the inner play of a
\* two-point attempt
Parsed == parse_play_details(details)
InnerFlags ==
    LET m == twoPointRE(overturned_cut(details.v))
    IN IF m.m /\ parse_play_details(m.g.twoPoint).t = "dict"
       THEN FlagsOf(parse_play_details(m.g.twoPoint).v) ELSE {}

\* C3 as stated: after parse_play_details and _clean_features at most one
\* category flag is true, and none is true only for an unrecognized play.
C3_AtMostOneCategory ==
    pc = "done" =>
        /\ Cardinality(TrueFlags(df.v)) <= 1
        /\ (TrueFlags(df.v) = {}) <=> (Parsed.t = "none")

\* C3 amended: one category flag is true for a recognized play and none for
\* an unrecognized one, except that a two-point attempt whose inner play is
\* itself classified carries isTwoPoint and the one flag of the inner play
\* (isPass, isPresnapPenalty or isRun).
C3_OneCategoryOrTwoPointInner ==
    pc = "done" =>
        /\ (TrueFlags(df.v) = {}) <=> (Parsed.t = "none")
        /\ Cardinality(TrueFlags(df.v) \ {8}) <= 1
        /\ Cardinality(TrueFlags(df.v)) >= 2 =>
              /\ 8 \in TrueFlags(df.v)
              /\ TrueFlags(df.v) \ {8} = InnerFlags
              /\ InnerFlags \subseteq {9, 10, 11}

\* a two-point attempt normalized with the flag of its inner play
C3_Witness ==
    /\ pc = "done"
    /\ Cardinality(TrueFlags(df.v)) = 2
    /\ 8 \in TrueFlags(df.v)

\* C5: _clean_features returns a normalized record for every row and never
\* raises, whatever the detail and the location.
C5_CleanNeverRaises == pc # "start" => (pc = "done" /\ df.t = "dict")

\* quarters with the number they stand for
QuarterTable ==
    {[q |-> F(1), n |-> 1], [q |-> F(2), n |-> 2], [q |-> F(4), n |-> 4],
     [q |-> Chars(<<"2">>), n |-> 2], [q |-> Chars(<<"O", "T">>), n |-> 5]}

\* C10: for a row with a clock "M:SS" and quarter q (OT counting as 5),
\* _clean_features sets secsElapsed to q*900 - (M*60 + SS); with no clock it
\* sets no secsElapsed.
C10_SecsElapsed ==
    pc = "done" =>
        /\ \A c \in ClockTable : \A q \in QuarterTable :
              (struct.v["qtr_time_remain"] = Chars(c.txt) /\ struct.v["quarter"] = q.q)
                  => df.v["secsElapsed"] = I(q.n * 900 - (c.mins * 60 + c.secs))
        /\ isnull(struct.v["qtr_time_remain"]) => "secsElapsed" \notin DOMAIN df.v

\* quarter 2, clock 10:30: 1170 seconds elapsed
C10_Witness ==
    /\ pc = "done"
    /\ struct.v["quarter"] = F(2)
    /\ struct.v["qtr_time_remain"] = Chars(<<"1", "0", ":", "3", "0">>)
    /\ df.v["secsElapsed"] = I(1170)

(************************* expand_details claims ***************************)
\* the descriptions that match no category pattern
Unmatched(dtl) == isinstance_str(dtl) /\ Matching(dtl.v) = {}

\* C4: expand_details emits a row for every play; the row of a play whose
\* description matches no category has every category flag false and
\* is_error true, and is_error is false for a play whose description matched.
C4_UnmatchedRowsCarried ==
    pc # "start" =>
        \A i \in 1..Len(table) :
            /\ Unmatched(table[i]["detail"]) =>
                  /\ df.t = "df"
                  /\ Len(df.v) >= i
                  /\ TrueFlags(df.v[i]) = {}
                  /\ df.v[i]["is_error"] = True
            /\ (df.t = "df" /\ isinstance_str(table[i]["detail"])
                  /\ Matching(table[i]["detail"].v) # {}) => df.v[i]["is_error"] = False

\* the number a quarter stands for, and the seconds left on a clock
QuarterNum(q) == (CHOOSE x \in QuarterTable : x.q = q).n
ClockSecs(c) == LET x == CHOOSE y \in ClockTable : Chars(y.txt) = c
                IN x.mins * 60 + x.secs

\* quarters never decrease and, within a quarter, the clocks that are
\* present never increase
OrderedGame(t) ==
    \A i \in 1..Len(t) : \A j \in (i + 1)..Len(t) :
        /\ QuarterNum(t[i]["quarter"]) <= QuarterNum(t[j]["quarter"])
        /\ (/\ QuarterNum(t[i]["quarter"]) = QuarterNum(t[j]["quarter"])
            /\ notnull(t[i]["qtr_time_remain"])
            /\ notnull(t[j]["qtr_time_remain"]))
              => ClockSecs(t[i]["qtr_time_remain"]) >= ClockSecs(t[j]["qtr_time_remain"])

\* C9: for a game in source order, with any of its clocks missing, the
\* secsElapsed values expand_details produces never decrease from a play to
\* the next.
C9_SecsElapsedMonotone ==
    (pc = "done" /\ OrderedGame(table)) =>
        \A i \in 1..(Len(df.v) - 1) :
            df.v[i]["secsElapsed"].v <= df.v[i + 1]["secsElapsed"].v

(**************************** assembler claims *****************************)
\* home_wpa summed over the plays, a missing value counting for nothing
RECURSIVE SumWPA(_)
SumWPA(frame) ==
    IF frame = <<>> THEN 0
    ELSE (IF notnull(frame[1]["home_wpa"]) THEN frame[1]["home_wpa"].v ELSE 0)
         + SumWPA(Tail(frame))

\* C6: after BoxScore.pbp the initial win probability plus the sum of
\* home_wpa over all plays equals the final win probability.
C6_TelescopingWPA ==
    pc = "done" => initialWinProb(ctx.line).v + SumWPA(df.v) = finalWP(ctx).v

\* C7: every timeout has home_wpa 0, and the play after a timeout has the
\* win probability before the play that follows it, or the final win
\* probability when there is none, minus the win probability before the
\* timeout.
C7_TimeoutZeroMovement ==
    pc = "done" =>
        \A t \in 1..Len(df.v) :
            df.v[t]["isTimeout"] = True =>
                /\ df.v[t]["home_wpa"] = F(0)
                /\ (t + 2 <= Len(df.v) /\ df.v[t + 1]["isTimeout"] = False) =>
                      df.v[t + 1]["home_wpa"]
                          = Minus(df.v[t + 2]["home_wp"], df.v[t]["home_wp"])
                /\ (t + 1 = Len(df.v) /\ df.v[t + 1]["isTimeout"] = False) =>
                      df.v[t + 1]["home_wpa"] = Minus(finalWP(ctx), df.v[t]["home_wp"])

\* C8: the frame holds the plays of the table, each at its own position:
\* as many rows as the table, row i carrying the description of play i and
\* the classification of that description.
C8_SourceOrder ==
    df.t = "df" =>
        /\ Len(df.v) = Len(table)
        /\ \A i \in 1..Len(table) :
              /\ df.v[i]["detail"] = table[i]["detail"]
              /\ df.v[i]["is_error"] = B(Unmatched(table[i]["detail"]))
              /\ df.v[i]["isTimeout"] = B(table[i]["detail"] = timeout_detail)

\* a game of three plays with an unmatched play and a timeout, assembled
C8_Witness ==
    /\ pc = "done"
    /\ Len(df.v) = 3
    /\ \E i, j \in 1..3 : /\ table[i]["detail"] = unmatched_detail
                          /\ table[j]["detail"] = timeout_detail

(************************** game context claims ****************************)
\* C11: when the game has no point spread, BoxScore.pbp skips the first-play
\* correction: the win-probability model is never called with the missing
\* spread, so that nothing it returns or raises reaches the series.
C11_MissingContextSkipped == isnull(ctx.line) => calls = 0

\* C12: for a game with no plays expand_details and BoxScore.pbp raise
\* nothing and return a series of zero plays; the gap-filling steps make no
\* row.
C12_EmptyGameEmptySeries ==
    table = <<>> =>
        /\ pc # "raised"
        /\ df.t = "df" => df.v = <<>>

(***************************** two-point claims ****************************)
\* "Two Point Attempt: <inner>, conversion (succeeds|fails)": the attempt, an
\* inner text free of the conversion words, and the conversion word last
TwoPointForm(d) ==
    /\ Len(d) >= 3
    /\ d[1] = "TwoPt"
    /\ d[2] \notin ChallengeToks
    /\ d[Len(d)] \in ConvToks
    /\ \A i \in 2..(Len(d) - 1) : d[i] \notin ConvToks
InnerOf(d) == parse_play_details(S(SubSeq(d, 2, Len(d) - 1)))
OuterWord(d) == IF d[Len(d)] = "ConvS" THEN S(<<"succeeds">>) ELSE S(<<"fails">>)

\* the record of a two-point attempt: isTwoPoint, the outer conversion word,
\* and every field of the inner play's own classification
TwoPointRecord(d, st) ==
    /\ st.t = "dict"
    /\ Get(st.v, "isTwoPoint") = True
    /\ Get(st.v, "twoPointSuccess") = OuterWord(d)
    /\ InnerOf(d).t = "dict" =>
          \A k \in DOMAIN InnerOf(d).v :
              k \in DOMAIN st.v /\ st.v[k] = InnerOf(d).v[k]

\* C13 as stated: every description of the two-point form is returned as a
\* two-point record with the fields of its inner play merged in.
C13_TwoPointOfForm ==
    (pc # "start" /\ isinstance_str(details) /\ TwoPointForm(details.v)) =>
        TwoPointRecord(details.v, struct)

\* C13 amended: the same, for the descriptions of the two-point form that are
\* classified as written (no overturned challenge cuts the text) and that no
\* earlier pattern (kickoff, timeout, field goal, punt, kneel, spike, extra
\* point) matches.
C13_TwoPointWhenFirst ==
    (/\ pc # "start"
     /\ isinstance_str(details)
     /\ TwoPointForm(details.v)
     /\ overturned_cut(details.v) = details.v
     /\ Matching(details.v) \cap (1..7) = {}) =>
        TwoPointRecord(details.v, struct)

\* a failed two-point attempt whose inner play is classified as well
C13_Witness ==
    /\ pc = "done"
    /\ isinstance_str(details)
    /\ TwoPointForm(details.v)
    /\ InnerOf(details.v).t = "dict"
    /\ struct.v["twoPointSuccess"] = S(<<"fails">>)
    /\ struct.v["isRun"] = True

(******************************* run claims ********************************)
\* "<player> <direction> for <N> yards (tackle by <player>)"
run_grammar_detail == S(<<"P", "Run">>)

\* C14: a description that is exactly the run grammar is classified and
\* normalized as a Run and as nothing else, with the first player as rusher,
\* the code of the direction as rushDir, the yards as an integer and the
\* tackler as tackler1; no earlier pattern matches it.
C14_RunGrammar ==
    (pc # "start" /\ details = run_grammar_detail) =>
        /\ pc = "done"
        /\ Matching(details.v) = {11}
        /\ TrueFlags(df.v) = {11}
        /\ df.v["rusher"] = player
        /\ df.v["rushDir"] = S(<<RUSH_OPTS["left end"]>>)
        /\ df.v["rushYds"] = I(7)
        /\ df.v["tackler1"] = tackler

\* "BradTo00 left end for 7 yards (tackle by SmitJo01)", normalized
C14_Witness ==
    /\ pc = "done"
    /\ details = run_grammar_detail
    /\ df.v["isRun"] = True
    /\ df.v["rushDir"] = S(<<"LE">>)

(*************************** first-play claims *****************************)
\* the plays whose pre-play win probability is the initial win probability
AtInitialWP == {i \in 1..Len(df.v) : df.v[i]["home_wp"] = initialWinProb(ctx.line)}

\* C15: in one run of BoxScore.pbp the win-probability model is called once,
\* and its value is written as the pre-play win probability of one play,
\* the first of the game.
C15_InitialWPOnce ==
    /\ calls <= 1
    /\ pc = "done" => (calls = 1 /\ AtInitialWP = {1})

(***************************** numeric claims ******************************)
\* the yards, distances, counts, down, quarter and scores of a row: the
\* fields _clean_features casts, and the yards of a kneel, which it does not
NumericFields == int_vars \cup {"kneelYds"}

\* C16: after _clean_features every numeric field is an integer or missing,
\* never a str; rushYds is 0 for a Run with no yards captured and passYds 0
\* for a Pass with none, and they are missing when the play is no Run, no
\* Pass.
C16_NumericFields ==
    pc = "done" =>
        /\ \A k \in NumericFields \cap DOMAIN df.v : df.v[k].t \in {"int", "nan", "none"}
        /\ (df.v["isRun"] = True /\ isnull(Get(struct.v, "rushYds"))) => df.v["rushYds"] = I(0)
        /\ (df.v["isPass"] = True /\ isnull(Get(struct.v, "passYds"))) => df.v["passYds"] = I(0)
        /\ df.v["isRun"] = False => isnull(df.v["rushYds"])
        /\ df.v["isPass"] = False => isnull(df.v["passYds"])

(***************************** location claims *****************************)
\* C17: for a play that is no extra point, "abbrev N" gives the lower-cased
\* abbrev and N, a bare "N" gives a missing side and N, and a location that
\* is empty or no str (empty string, None, NaN) gives a missing side and 50.
C17_LocationFeatures ==
    (pc = "done" /\ df.v["isXP"] = False) =>
        LET loc == Get(struct.v, "location")
        IN /\ (loc.t = "str" /\ Len(loc.v) = 2) =>
                  /\ df.v["fieldSide"] = S(Lower(loc.v[1]))
                  /\ df.v["ydLine"] = I(LiteralVal(loc.v[2]))
           /\ (loc.t = "str" /\ Len(loc.v) = 1) =>
                  /\ isnull(df.v["fieldSide"])
                  /\ df.v["ydLine"] = I(LiteralVal(loc.v[1]))
           /\ (loc.t # "str" \/ loc = S(<<>>)) =>
                  /\ isnull(df.v["fieldSide"])
                  /\ df.v["ydLine"] = I(50)

(*************************** border corrections ****************************)
\* C18: with a point spread, the first play's home_wp is the initial win
\* probability and its home_wpa is the next play's home_wp minus that value;
\* a game of one play completes without reading a play past the end.
C18_FirstPlayCorrection ==
    (table # <<>> /\ notnull(ctx.line)) =>
        /\ Len(table) = 1 => df # Raise("KeyError")
        /\ (pc = "done" /\ df.v[1]["isTimeout"] = False) =>
               /\ df.v[1]["home_wp"] = initialWinProb(ctx.line)
               /\ df.v[1]["home_wpa"] =
                      Minus(df.v[2]["home_wp"], initialWinProb(ctx.line))

\* the terminal win probability of a game: 100 for a home win, 0 for an away
\* win, 50 for a tie
Terminal == IF ctx.winner = home_team THEN F(100)
            ELSE IF ctx.winner = away_team THEN F(0) ELSE F(50)

\* C19: when pbp returns and the last play is not a timeout, the last play's
\* home_wpa is the terminal win probability minus its home_wp.
C19_LastPlayCorrection ==
    (pc = "done" /\ df.v[Len(df.v)]["isTimeout"] # True) =>
        df.v[Len(df.v)]["home_wpa"] = Minus(Terminal, df.v[Len(df.v)]["home_wp"])

\* a tied game returned with a run as last play, entered at 40: 50 - 40
C19_Witness ==
    /\ pc = "done"
    /\ isnull(ctx.winner)
    /\ df.v[Len(df.v)]["isTimeout"] = False
    /\ df.v[Len(df.v)]["home_wp"] = F(40)
    /\ df.v[Len(df.v)]["home_wpa"] = F(10)

\* C20: a game of two plays or more whose final play is a timeout, not at
\* the first second of the game, is returned: the timeout correction reads
\* and writes no play past the last one.
C20_TimeoutFinalPlay ==
    (/\ Len(table) >= 2
     /\ table[Len(table)]["detail"] = timeout_detail
     /\ table[Len(table)]["qtr_time_remain"] = clock_1030
     /\ notnull(ctx.line)) => df # Raise("KeyError")

(******************************* lag and fill ******************************)
\* two numbers of equal value, whatever their type
SameNumber(a, b) == /\ a.t \in {"int", "float"}
                    /\ b.t \in {"int", "float"}
                    /\ a.v = b.v

\* C21: when pbp returns, every play after the first carries the scores the
\* table records on the play before it and, where that play has one, its
\* home_wp; the first play carries the score 0-0.
C21_ScoreAndWPLag ==
    pc = "done" =>
        /\ SameNumber(df.v[1]["pbp_score_hm"], I(0))
        /\ SameNumber(df.v[1]["pbp_score_aw"], I(0))
        /\ \A i \in 2..Len(df.v) :
               /\ SameNumber(df.v[i]["pbp_score_hm"], table[i - 1]["pbp_score_hm"])
               /\ SameNumber(df.v[i]["pbp_score_aw"], table[i - 1]["pbp_score_aw"])
               /\ notnull(table[i - 1]["home_wp"]) =>
                      SameNumber(df.v[i]["home_wp"], table[i - 1]["home_wp"])

(******************************** the clock ********************************)
\* C22: expand_details leaves the clock of a first play that has one.
C22_PresentFirstClockKept ==
    (pc = "done" /\ table # <<>> /\ notnull(table[1]["qtr_time_remain"])) =>
        df.v[1]["qtr_time_remain"] = table[1]["qtr_time_remain"]

\* the plays before play i that have a clock in the table
ClockAbove(i) == {j \in 1..(i - 1) : notnull(table[j]["qtr_time_remain"])}

\* C23: in a game whose first play is at 15:00 or has no clock and whose
\* last play has a clock, every later play without a clock gets the clock of
\* the nearest play before it that has one (15:00 when none has), and a
\* later play with a clock keeps it.
C23_ClockForwardFill ==
    (/\ pc = "done"
     /\ table # <<>>
     /\ table[1]["qtr_time_remain"] \in {NaN, clock_1500}
     /\ notnull(table[Len(table)]["qtr_time_remain"])) =>
        \A i \in 2..Len(table) :
            df.v[i]["qtr_time_remain"] =
                IF notnull(table[i]["qtr_time_remain"]) THEN table[i]["qtr_time_remain"]
                ELSE IF ClockAbove(i) = {} THEN clock_1500
                ELSE table[Max(ClockAbove(i))]["qtr_time_remain"]

\* the plays from play i on that have a clock in the table
ClockFrom(i) == {j \in i..Len(table) : notnull(table[j]["qtr_time_remain"])}

\* C24: once the clock is filled every play has one, also when a later step
\* raises, and a play after the first that the fill left without a clock,
\* none being on it or below it, has '0:00' in quarter 4 and '15:00' in any
\* other quarter.
C24_EveryPlayHasAClock ==
    /\ (pc = "raised" /\ table # <<>>) =>
           \A i \in 1..Len(table) : notnull(fill_clock(table)[i]["qtr_time_remain"])
    /\ pc = "done" =>
           \A i \in 1..Len(table) :
               /\ notnull(df.v[i]["qtr_time_remain"])
               /\ (i > 1 /\ ClockFrom(i) = {}) =>
                      df.v[i]["qtr_time_remain"] =
                          IF table[i]["quarter"] = F(4) THEN clock_000 ELSE clock_1500

\* a returned game whose last play, in quarter 4, had no clock and got '0:00'
C24_Witness ==
    /\ pc = "done"
    /\ Len(table) >= 2
    /\ table[Len(table)]["quarter"] = F(4)
    /\ isnull(table[Len(table)]["qtr_time_remain"])
    /\ df.v[Len(table)]["qtr_time_remain"] = clock_000

(***************************** distance to goal ****************************)
\* the plays with a distToGoal once the kickoffs are seeded, and that value
Valued(i) == df.v[i]["isKickoff"] = True \/ notnull(teamFeats[i])
ValueOf(i) == IF df.v[i]["isKickoff"] = True THEN F(65) ELSE teamFeats[i]
ValuedFrom(i) == {j \in i..Len(df.v) : Valued(j)}
ValuedUpTo(i) == {j \in 1..i : Valued(j)}

\* C25: when pbp returns, a kickoff has distToGoal 65 whatever value it came
\* with, any other play that came with a value keeps it, a play without one
\* takes the nearest value below it, or the nearest above it when there is
\* none below, and is left without one only when no play has a value.
C25_DistToGoalFill ==
    pc = "done" =>
        \A i \in 1..Len(df.v) :
            df.v[i]["distToGoal"] =
                IF ValuedFrom(i) # {} THEN ValueOf(Min(ValuedFrom(i)))
                ELSE IF ValuedUpTo(i) # {} THEN ValueOf(Max(ValuedUpTo(i)))
                ELSE NaN

\* a returned game of three plays: a kickoff that came with 35, a play
\* without a value before one at 20, which gives 65, 20, 20
C25_Witness ==
    /\ pc = "done"
    /\ Len(df.v) = 3
    /\ teamFeats = <<F(35), NaN, F(20)>>
    /\ df.v[1]["isKickoff"] = True
    /\ df.v[1]["distToGoal"] = F(65)
    /\ df.v[2]["distToGoal"] = F(20)
    /\ df.v[3]["distToGoal"] = F(20)

(******************************** challenges *******************************)
\* the record of a challenged description d0 when the classification runs on
\* text: the challenge fields of d0 and what the categories give for text
ClassifiedOn(d0, text) ==
    try_categories(Update(Update([isChallenge |-> True], challengeRE(d0).g),
                          [isLateral |-> B(Has(text, "Lat"))]),
                   text,
                   IF twoPointRE(text).m
                   THEN parse_play_details(twoPointRE(text).g.twoPoint) ELSE None)

\* C26: for a description with a challenge sentence, an upheld challenge is
\* classified on the whole description, also when the word 'overturned'
\* occurs in it, and an overturned one on the text after 'overturned.'; the
\* record carries isChallenge, challenger and callUpheld.
C26_ChallengeHandling ==
    (pc # "start" /\ isinstance_str(details) /\ challengeRE(details.v).m) =>
        IF challengeRE(details.v).g.callUpheld = S(<<"upheld">>)
        THEN struct = ClassifiedOn(details.v, details.v)
        ELSE struct = ClassifiedOn(details.v,
                                   Suffix(details.v, index_overturned_dot(details.v) + 1))

(***************************** malformed fields ****************************)
\* C27: for a run play with a location "abbrev N", _clean_features does not
\* raise whatever the quarter and the clock, and it leaves secsElapsed
\* missing when the clock is present and not of the form M:SS or the
\* quarter is missing.
C27_MalformedFieldsNeverRaise ==
    (/\ pc # "start"
     /\ table[2]["detail"] = run_detail
     /\ table[2]["location"] = good_location) =>
        /\ pc = "done"
        /\ (\/ isnull(table[2]["quarter"])
            \/ /\ notnull(table[2]["qtr_time_remain"])
               /\ table[2]["qtr_time_remain"] \notin {Chars(c.txt) : c \in ClockTable}) =>
               isnull(Get(df.v, "secsElapsed"))

(****************************** the run matcher ****************************)
\* Timeout, ExtraPoint, TwoPointConversion and PresnapPenalty: the
\* categories whose pattern has no player in it
NoPlayerCategories == {2, 7, 8, 10}

InFlight == {p \in Callers : callerAt[p] = "request"}
\* the ends of requests logged before position k
EndsBefore(k) == {j \in 1..(k - 1) : log[j].e = "end"}

\* C29: at most one request is in flight, every request starts at least
\* THROTTLE_DELAY after the end of the request before it, and a caller that
\* is about to write LAST_REQUEST_TIME holds the lock.
C29_Throttle ==
    /\ Cardinality(InFlight) <= 1
    /\ \A k \in 1..Len(log) :
           (log[k].e = "start" /\ EndsBefore(k) # {}) =>
               log[k].t >= log[Max(EndsBefore(k))].t + THROTTLE_DELAY
    /\ \A p \in Callers : callerAt[p] = "stamp" => THROTTLE_LOCK = p

(******************************* memoization *******************************)
\* C30: for every key, no call of the wrapped function follows a call that
\* returned, the cached object keeps the content of that call, and what the
\* wrapper returns for the key has that content, whatever the callers did
\* to the objects they were handed.
C30_MemoizeOnceAndCopy ==
    /\ \A k \in Keys :
           /\ \A i \in 1..(Len(funLog[k]) - 1) : funLog[k][i] = 0
           /\ k \in DOMAIN cache =>
                  /\ funLog[k] # <<>>
                  /\ heap[cache[k]] = funLog[k][Len(funLog[k])]
                  /\ heap[cache[k]] \in Results
    /\ ret.t = "ret" =>
           /\ ret.key \in DOMAIN cache
           /\ ret.value = funLog[ret.key][Len(funLog[ret.key])]
           /\ ret.obj # cache[ret.key]

\* a call answered from the cache after a caller had changed the object an
\* earlier call returned
C30_Witness ==
    /\ ret.t = "ret"
    /\ ret.obj > 2
    /\ cache[ret.key] = 1
    /\ ret.before[2] = 0
    /\ Len(funLog[ret.key]) = 1
    /\ ret.value = funLog[ret.key][1]

====
